---- MODULE Spec2Model ----
(***************************************************************************)
(* Model of src/controllers/groups.js (NodeBB groups controller): the      *)
(* three request handlers groupsController.list, .details and .members,    *)
(* their helpers, and the group store they read.  One request is served at *)
(* a time.  Every store read the flow or the answer of a handler depends   *)
(* on is a step of its own, the reads of one Promise.all included, so that *)
(* a concurrent deletion of the group can fall between any two of them;    *)
(* the sorted listing and the member set of a group are read at whatever   *)
(* size they have at the moment of the read.                               *)
(***************************************************************************)
EXTENDS Integers, Sequences, FiniteSets, TLC

(* ---------------------------- bounds ---------------------------------- *)

\* Longest slug a request carries.
MaxSlugLen == 2
\* Largest page number a request asks for.
MaxPage == 4
\* Largest number of groups a search matches.
MaxMatched == 201
\* Largest number of groups in the sorted listing.
MaxGroups == 32

(* ------------------------ program constants --------------------------- *)

\* getGroups: resultsPerPage when req.query.query is set.
SearchResultsPerPage == 100
\* getGroups: resultsPerPage of the sorted listing.
ListResultsPerPage == 15
\* members: usersPerPage.
UsersPerPage == 50

(* --------------------------- value sets ------------------------------- *)

NULL == "null"
GroupName == "Group One"

\* Characters a slug is made of; "G" is the only one toLowerCase changes.
Chars == {"g", "G", "x"}
Slugs == UNION {[1..n -> Chars] : n \in 1..MaxSlugLen}
\* The slug under which the store files the group.
GroupSlug == <<"g", "x">>

\* The standing of req.uid (0 = guest has none of them).  An administrator
\* holds every admin privilege, admin:groups included.
Principals ==
    {u \in [administrator : BOOLEAN, adminGroups : BOOLEAN, globalMod : BOOLEAN] :
        u.administrator => u.adminGroups}

\* The principals of the list endpoint, which reads of a principal only
\* user.isAdministrator(req.uid): an administrator and a regular user.
ListPrincipals ==
    {u \in Principals : ~u.globalMod /\ u.adminGroups = u.administrator}

\* req.query.page as it arrives: absent, a non-numeric text, or an integer.
PageParams ==
    {[kind |-> "absent", v |-> 0], [kind |-> "text", v |-> 0]}
        \cup {[kind |-> "int", v |-> i] : i \in (-1)..MaxPage}

\* req.query.filterHidden as it arrives.
FilterHiddenParams == {"absent", "false", "true", "1"}

\* groupData.memberCount values the store may report.
MemberCounts == {0, 1, UsersPerPage, UsersPerPage + 1}

NoGroupData == [found |-> FALSE, memberCount |-> 0]

(* --------------------- JavaScript built-ins used ---------------------- *)

Max(a, b) == IF a >= b THEN a ELSE b
Min(a, b) == IF a <= b THEN a ELSE b

\* String.prototype.toLowerCase, character by character.
ToLowerChar(c) == IF c = "G" THEN "g" ELSE c
ToLowerCase(s) == [i \in 1..Len(s) |-> ToLowerChar(s[i])]

\* parseInt(x, 10): NaN for undefined and for text that starts with no digit.
ParseInt(p) ==
    IF p.kind = "int" THEN [nan |-> FALSE, v |-> p.v] ELSE [nan |-> TRUE, v |-> 0]

\* x || d on a number: NaN and 0 are falsy, every other number is kept.
OrElse(x, d) == IF x.nan \/ x.v = 0 THEN d ELSE x.v

\* Math.ceil(n / d) for n >= 0, d > 0.
Ceil(n, d) == (n + d - 1) \div d

\* Array.prototype.slice(start, end) with 0 <= start: sequence positions
\* start+1 .. min(end, length).
Slice(s, start, end) ==
    LET hi == Min(end, Len(s))
    IN  IF start >= hi THEN <<>> ELSE SubSeq(s, start + 1, hi)

(* -------------------------- collaborators ----------------------------- *)

\* The ordered sequence of groups a search or a sorted listing ranges over;
\* a group is identified by its rank.  The listing and the member set of a
\* group belong to the store and may change between any two reads: each
\* read answers for the size it meets.
AllGroups(n) == [i \in 1..n |-> i]

\* groups.getGroupsBySort(sort, start, stop): the inclusive range read.
GetGroupsBySort(n, start, stop) == Slice(AllGroups(n), start, stop + 1)

\* groups.getGroupNameByGroupSlug: exact match on the stored slug.
GetGroupNameByGroupSlug(st, slug) ==
    IF st.exists /\ slug = GroupSlug THEN GroupName ELSE NULL

\* groups.get / groups.getGroupData: null once the group is gone.
GetGroupData(st, memberCount) ==
    IF st.exists THEN [found |-> TRUE, memberCount |-> memberCount] ELSE NoGroupData

\* user.isAdminOrGlobalMod.
IsAdminOrGlobalMod(u) == u.administrator \/ u.globalMod

(* ---------------------------- state ----------------------------------- *)

VARIABLES
    store,  \* the group and the requesting principal's relation to it
    pc,     \* where the handler of the current request stands
    req,    \* the request: endpoint, params, query, uid
    loc,    \* the handler's local variables
    res,    \* what the handler did to res / next
    calls   \* collaborator calls of the current request, in order

vars == <<store, pc, req, loc, res, calls>>

NoStore == [exists |-> FALSE, hidden |-> FALSE, member |-> FALSE, invited |-> FALSE]

\* Of a group that does not exist the store keeps no member and no
\* invitation; what groups.isHidden answers for it is the store's business.
Stores ==
    [exists : {FALSE}, hidden : BOOLEAN, member : {FALSE}, invited : {FALSE}]
        \cup
    [exists : {TRUE}, hidden : BOOLEAN, member : BOOLEAN, invited : BOOLEAN]

\* req.query as far as the handlers read it.
NoSearch == [page |-> [kind |-> "absent", v |-> 0], query |-> FALSE,
             filterHidden |-> "absent"]

\* A link: what it starts with, its path segments, its query string.
NoHref == [base |-> "none", path |-> <<>>, search |-> NoSearch]

NoReq ==
    [endpoint |-> "none", rawSlug |-> <<>>, slug |-> <<>>, isAPI |-> FALSE,
     url |-> NoHref,
     uid |-> [administrator |-> FALSE, adminGroups |-> FALSE, globalMod |-> FALSE],
     page |-> [kind |-> "absent", v |-> 0], query |-> FALSE,
     filterHidden |-> "absent"]

NoLoc ==
    [page |-> 0, resultsPerPage |-> 0, start |-> 0, stop |-> 0,
     total |-> 0, filterHidden |-> FALSE, searched |-> FALSE,
     pageCount |-> 0, allowGroupCreation |-> FALSE,
     groupName |-> NULL, exists |-> FALSE, isHidden |-> FALSE,
     isAdmin |-> FALSE, isGlobalMod |-> FALSE, isMember |-> FALSE,
     isInvited |-> FALSE, checked |-> FALSE, hasAccess |-> FALSE,
     fetched |-> FALSE, groupData |-> NoGroupData,
     readsDone |-> FALSE, isAdminOrGlobalMod |-> FALSE,
     pending |-> {}, returned |-> FALSE, count |-> 0]

NoRes ==
    [outcome |-> "pending", location |-> <<>>, template |-> "none",
     canonical |-> NoHref, renders |-> 0, failedAt |-> "none", items |-> <<>>,
     pagerCalled |-> FALSE, pagerPage |-> 0, pagerPageCount |-> 0]

Init ==
    /\ store \in Stores
    /\ pc = "idle"
    /\ req = NoReq
    /\ loc = NoLoc
    /\ res = NoRes
    /\ calls = <<>>

InitList ==
    /\ store = NoStore
    /\ pc = "idle"
    /\ req = NoReq
    /\ loc = NoLoc
    /\ res = NoRes
    /\ calls = <<>>

(* ----------------------- effects on res / next ------------------------ *)

\* next() with no argument: the generic not-found continuation.
CallNext(r) == [r EXCEPT !.outcome = "next"]

\* A rejected collaborator promise is caught nowhere in this file: the
\* handler's own promise rejects with it.
SwallowFailure(r, at) == [r EXCEPT !.outcome = "next", !.failedAt = at]
PropagateFailure(r, at) == [r EXCEPT !.outcome = "failure", !.failedAt = at]

\* An expression on null (groupData.memberCount) throws a TypeError, which
\* rejects the handler's promise as well.
ThrowTypeError(r) == [r EXCEPT !.outcome = "typeError"]

\* res.redirect(`${relative_path}/groups/${lowercaseSlug}`)
GroupsPath(slug) == <<"relative_path", "/groups/">> \o slug
Redirect(r, slug) == [r EXCEPT !.outcome = "redirect", !.location = GroupsPath(slug)]

\* res.locals.linkTags = [{ rel: 'canonical', href: `${url}...` }], url being
\* nconf.get('url') as read when the module loads.
CanonicalLink(r, path, search) ==
    [r EXCEPT !.canonical = [base |-> "url", path |-> path, search |-> search]]

\* res.render(template, ...)
Render(r, template) ==
    [r EXCEPT !.outcome = "render", !.template = template, !.renders = @ + 1]

\* pagination.create(page, pageCount, req.query)
PaginationCreate(r, page, pageCount) ==
    [r EXCEPT !.pagerCalled = TRUE, !.pagerPage = page, !.pagerPageCount = pageCount]

(* --------------------------- environment ------------------------------ *)

\* Another request destroys the group: its record, its slug entry, its
\* member and invitation sets go.
DeleteGroup ==
    /\ store.exists
    /\ \E hidden \in BOOLEAN : store' = [NoStore EXCEPT !.hidden = hidden]
    /\ UNCHANGED <<pc, req, loc, res, calls>>

\* The response is out and the handler's promise settled: nothing of the
\* request outlives it (all components are stateless per call).
RequestEnds ==
    /\ pc = "done"
    /\ pc' = "idle"
    /\ req' = NoReq
    /\ loc' = NoLoc
    /\ res' = NoRes
    /\ calls' = <<>>
    /\ UNCHANGED store

(* ======================= groupsController.details ===================== *)

DetailsStart ==
    /\ pc = "idle"
    /\ \E slug \in Slugs, isAPI \in BOOLEAN, uid \in Principals :
        req' = [NoReq EXCEPT !.endpoint = "details", !.rawSlug = slug,
                             !.slug = slug, !.isAPI = isAPI, !.uid = uid]
    /\ loc' = NoLoc
    /\ res' = NoRes
    /\ calls' = <<>>
    /\ pc' = "d_validate"
    /\ UNCHANGED store

\* validateSlugAndRedirect: the branch that answers with a redirect.
RedirectAlways(slug, isAPI) == slug # ToLowerCase(slug)
ShouldRedirect(slug, isAPI) == slug # ToLowerCase(slug) /\ ~isAPI

\* validateSlugAndRedirect: req.params.slug when the function returns.
SlugAfterValidation(slug, isAPI) ==
    IF slug # ToLowerCase(slug) /\ isAPI THEN ToLowerCase(slug) ELSE slug

\* details: `if (!validation) return;`
ContinueAfterRedirect(validation) == "d_resolve"
AfterValidation(validation) == IF validation THEN "d_resolve" ELSE "done"

ValidateSlugAndRedirect ==
    /\ pc = "d_validate"
    /\ LET redirect == ShouldRedirect(req.slug, req.isAPI)
       IN  /\ req' = [req EXCEPT !.slug = SlugAfterValidation(req.slug, req.isAPI)]
           /\ res' = IF redirect THEN Redirect(res, ToLowerCase(req.slug)) ELSE res
           /\ pc' = AfterValidation(~redirect)
    /\ UNCHANGED <<store, loc, calls>>

DetailsGetGroupName ==
    /\ pc = "d_resolve"
    /\ calls' = Append(calls, "groups.getGroupNameByGroupSlug")
    /\ \E failed \in BOOLEAN :
        IF failed
        THEN /\ res' = PropagateFailure(res, "d_resolve")
             /\ pc' = "done"
             /\ loc' = loc
        ELSE LET groupName == GetGroupNameByGroupSlug(store, req.slug)
             IN  /\ loc' = [loc EXCEPT !.groupName = groupName]
                 /\ IF groupName = NULL
                    THEN res' = CallNext(res) /\ pc' = "done"
                    ELSE res' = res /\ pc' = "d_access"
    /\ UNCHANGED <<store, req>>

\* validateGroupAccess: `if (isHidden && !isAdmin && !isGlobalMod)`
NeedsMembershipCheckNoMod(isHidden, isAdmin, isGlobalMod) == isHidden /\ ~isAdmin
NeedsMembershipCheck(isHidden, isAdmin, isGlobalMod) ==
    isHidden /\ ~isAdmin /\ ~isGlobalMod

\* validateGroupAccess: `if (!isMember && !isInvited)`
MembershipDenies(isMember, isInvited) == ~isMember /\ ~isInvited

\* details: `if (!hasAccess) return next();`
ForbidAccess(r) == [r EXCEPT !.outcome = "forbidden"]
DenyAccess(r) == CallNext(r)

\* A store read of a pending Promise.all settles.  The reads of one batch
\* are separate asynchronous operations: each sees the store as it is when
\* it runs, and a rejected one rejects the batch at once.
ReadExists ==
    /\ "groups.exists" \in loc.pending
    /\ \E failed \in BOOLEAN :
        IF failed
        THEN /\ res' = PropagateFailure(res, pc)
             /\ pc' = "done"
             /\ loc' = [loc EXCEPT !.pending = {}]
        ELSE /\ loc' = [loc EXCEPT !.exists = store.exists,
                                   !.pending = @ \ {"groups.exists"}]
             /\ UNCHANGED <<res, pc>>
    /\ UNCHANGED <<store, req, calls>>

ReadIsHidden ==
    /\ "groups.isHidden" \in loc.pending
    /\ \E failed \in BOOLEAN :
        IF failed
        THEN /\ res' = PropagateFailure(res, pc)
             /\ pc' = "done"
             /\ loc' = [loc EXCEPT !.pending = {}]
        ELSE /\ loc' = [loc EXCEPT !.isHidden = store.hidden,
                                   !.pending = @ \ {"groups.isHidden"}]
             /\ UNCHANGED <<res, pc>>
    /\ UNCHANGED <<store, req, calls>>

ReadIsMember ==
    /\ "groups.isMember" \in loc.pending
    /\ \E failed \in BOOLEAN :
        IF failed
        THEN /\ res' = PropagateFailure(res, pc)
             /\ pc' = "done"
             /\ loc' = [loc EXCEPT !.pending = {}]
        ELSE /\ loc' = [loc EXCEPT !.isMember = store.member,
                                   !.pending = @ \ {"groups.isMember"}]
             /\ UNCHANGED <<res, pc>>
    /\ UNCHANGED <<store, req, calls>>

ReadIsInvited ==
    /\ "groups.isInvited" \in loc.pending
    /\ \E failed \in BOOLEAN :
        IF failed
        THEN /\ res' = PropagateFailure(res, pc)
             /\ pc' = "done"
             /\ loc' = [loc EXCEPT !.pending = {}]
        ELSE /\ loc' = [loc EXCEPT !.isInvited = store.invited,
                                   !.pending = @ \ {"groups.isInvited"}]
             /\ UNCHANGED <<res, pc>>
    /\ UNCHANGED <<store, req, calls>>

ReadGroupData ==
    /\ "groups.getGroupData" \in loc.pending
    /\ \E failed \in BOOLEAN, memberCount \in MemberCounts :
        IF failed
        THEN /\ res' = PropagateFailure(res, pc)
             /\ pc' = "done"
             /\ loc' = [loc EXCEPT !.pending = {}]
        ELSE /\ loc' = [loc EXCEPT !.groupData = GetGroupData(store, memberCount),
                                   !.pending = @ \ {"groups.getGroupData"}]
             /\ UNCHANGED <<res, pc>>
    /\ UNCHANGED <<store, req, calls>>

\* validateGroupAccess: the four lookups of its first Promise.all are issued;
\* the two about the principal do not depend on the group.
ValidateGroupAccess ==
    /\ pc = "d_access"
    /\ calls' = calls \o <<"groups.exists", "groups.isHidden",
                           "privileges.admin.can", "user.isGlobalModerator">>
    /\ \E failed \in BOOLEAN :
        IF failed
        THEN /\ res' = PropagateFailure(res, "d_access")
             /\ pc' = "done"
             /\ loc' = loc
        ELSE /\ loc' = [loc EXCEPT !.isAdmin = req.uid.adminGroups,
                                   !.isGlobalMod = req.uid.globalMod,
                                   !.pending = {"groups.exists", "groups.isHidden"}]
             /\ res' = res
             /\ pc' = "d_access_join"
    /\ UNCHANGED <<store, req>>

\* validateGroupAccess once its first Promise.all is joined, and what details
\* does with an early verdict.
JoinGroupAccess ==
    /\ pc = "d_access_join"
    /\ loc.pending = {}
    /\ IF ~loc.exists
       THEN /\ loc' = [loc EXCEPT !.checked = TRUE, !.hasAccess = FALSE]
            /\ res' = DenyAccess(res)
            /\ pc' = "done"
       ELSE IF NeedsMembershipCheck(loc.isHidden, loc.isAdmin, loc.isGlobalMod)
       THEN /\ loc' = loc
            /\ res' = res
            /\ pc' = "d_access2"
       ELSE /\ loc' = [loc EXCEPT !.checked = TRUE, !.hasAccess = TRUE]
            /\ res' = res
            /\ pc' = "d_fetch"
    /\ UNCHANGED <<store, req, calls>>

\* validateGroupAccess: the second Promise.all is issued.
ValidateGroupMembership ==
    /\ pc = "d_access2"
    /\ calls' = calls \o <<"groups.isMember", "groups.isInvited">>
    /\ loc' = [loc EXCEPT !.pending = {"groups.isMember", "groups.isInvited"}]
    /\ pc' = "d_access2_join"
    /\ UNCHANGED <<store, req, res>>

\* validateGroupAccess from the join of its second Promise.all on.
JoinGroupMembership ==
    /\ pc = "d_access2_join"
    /\ loc.pending = {}
    /\ IF MembershipDenies(loc.isMember, loc.isInvited)
       THEN /\ loc' = [loc EXCEPT !.checked = TRUE, !.hasAccess = FALSE]
            /\ res' = DenyAccess(res)
            /\ pc' = "done"
       ELSE /\ loc' = [loc EXCEPT !.checked = TRUE, !.hasAccess = TRUE]
            /\ res' = res
            /\ pc' = "d_fetch"
    /\ UNCHANGED <<store, req, calls>>

\* fetchGroupDetailsData, and details' `if (!groupData) return next();`
FetchGroupDetailsData ==
    /\ pc = "d_fetch"
    /\ calls' = calls \o <<"groups.get", "groups.getLatestMemberPosts">>
    /\ \E failed \in BOOLEAN, memberCount \in MemberCounts :
        IF failed
        THEN /\ res' = PropagateFailure(res, "d_fetch")
             /\ pc' = "done"
             /\ loc' = loc
        ELSE LET groupData == GetGroupData(store, memberCount)
             IN  /\ loc' = [loc EXCEPT !.fetched = TRUE, !.groupData = groupData]
                 /\ IF ~groupData.found
                    THEN res' = CallNext(res) /\ pc' = "done"
                    ELSE res' = res /\ pc' = "d_render"
    /\ UNCHANGED <<store, req>>

RenderGroupDetails ==
    /\ pc = "d_render"
    /\ res' = Render(CanonicalLink(res, <<"/groups/">> \o ToLowerCase(req.slug),
                                    NoSearch),
                     "groups/details")
    /\ pc' = "done"
    /\ UNCHANGED <<store, req, loc, calls>>

(* ======================= groupsController.members ===================== *)

\* `parseInt(req.query.page, 10) || 1`
PageOf(param) == OrElse(ParseInt(param), 1)

\* members: start
MembersStartOffset(page) == Max(0, (page - 1) * UsersPerPage)

\* user.getUsersFromSet(`group:${groupName}:members`, uid, start, stop) on a
\* member set of the given size.
GetUsersFromSet(st, size, start, stop) ==
    IF st.exists THEN Slice(AllGroups(size), start, stop + 1) ELSE <<>>

MembersStart ==
    /\ pc = "idle"
    /\ \E slug \in Slugs, param \in PageParams, uid \in Principals :
        /\ req' = [NoReq EXCEPT !.endpoint = "members", !.rawSlug = slug,
                                !.slug = slug, !.page = param, !.uid = uid]
        /\ LET page == PageOf(param)
               start == MembersStartOffset(page)
           IN  loc' = [NoLoc EXCEPT !.page = page, !.resultsPerPage = UsersPerPage,
                                    !.start = start,
                                    !.stop = start + UsersPerPage - 1]
    /\ res' = NoRes
    /\ calls' = <<>>
    /\ pc' = "m_resolve"
    /\ UNCHANGED store

MembersGetGroupName ==
    /\ pc = "m_resolve"
    /\ calls' = Append(calls, "groups.getGroupNameByGroupSlug")
    /\ \E failed \in BOOLEAN :
        IF failed
        THEN /\ res' = PropagateFailure(res, "m_resolve")
             /\ pc' = "done"
             /\ loc' = loc
        ELSE LET groupName == GetGroupNameByGroupSlug(store, req.slug)
             IN  /\ loc' = [loc EXCEPT !.groupName = groupName]
                 /\ IF groupName = NULL
                    THEN res' = CallNext(res) /\ pc' = "done"
                    ELSE res' = res /\ pc' = "m_reads"
    /\ UNCHANGED <<store, req>>

\* members: `if (isHidden && !isMember && !isAdminOrGlobalMod)`
MembersDeniedNoAdmin(isHidden, isMember, isAdminOrGlobalMod) == isHidden /\ ~isMember
MembersDenied(isHidden, isMember, isAdminOrGlobalMod) ==
    isHidden /\ ~isMember /\ ~isAdminOrGlobalMod

\* members: the four lookups of its Promise.all are issued.
MembersReads ==
    /\ pc = "m_reads"
    /\ calls' = calls \o <<"groups.getGroupData", "user.isAdminOrGlobalMod",
                           "groups.isMember", "groups.isHidden">>
    /\ \E failed \in BOOLEAN :
        IF failed
        THEN /\ res' = PropagateFailure(res, "m_reads")
             /\ pc' = "done"
             /\ loc' = loc
        ELSE /\ loc' = [loc EXCEPT !.isAdminOrGlobalMod = IsAdminOrGlobalMod(req.uid),
                                   !.pending = {"groups.getGroupData",
                                                "groups.isMember", "groups.isHidden"}]
             /\ res' = res
             /\ pc' = "m_reads_join"
    /\ UNCHANGED <<store, req>>

\* members from the join of its Promise.all to the refusal.
MembersJoin ==
    /\ pc = "m_reads_join"
    /\ loc.pending = {}
    /\ loc' = [loc EXCEPT !.readsDone = TRUE]
    /\ IF MembersDenied(loc.isHidden, loc.isMember, loc.isAdminOrGlobalMod)
       THEN res' = CallNext(res) /\ pc' = "done"
       ELSE res' = res /\ pc' = "m_users"
    /\ UNCHANGED <<store, req, calls>>

MembersGetUsers ==
    /\ pc = "m_users"
    /\ calls' = Append(calls, "user.getUsersFromSet")
    /\ \E failed \in BOOLEAN, size \in MemberCounts :
        IF failed
        THEN /\ res' = PropagateFailure(res, "m_users")
             /\ pc' = "done"
        ELSE /\ res' = [res EXCEPT !.items =
                    GetUsersFromSet(store, size, loc.start, loc.stop)]
             /\ pc' = "m_render"
    /\ UNCHANGED <<store, req, loc>>

\* members: pageCount
MembersPageCount(memberCount) == Max(1, Ceil(memberCount, UsersPerPage))

\* members from `const breadcrumbs` on; groupData.memberCount throws on null.
MembersRender ==
    /\ pc = "m_render"
    /\ IF ~loc.groupData.found
       THEN /\ res' = ThrowTypeError(res)
            /\ loc' = loc
       ELSE LET pageCount == MembersPageCount(loc.groupData.memberCount)
            IN  /\ loc' = [loc EXCEPT !.pageCount = pageCount]
                /\ res' = Render(PaginationCreate(res, loc.page, pageCount),
                                 "groups/members")
    /\ pc' = "done"
    /\ UNCHANGED <<store, req, calls>>

Next ==
    \/ DetailsStart
    \/ ValidateSlugAndRedirect
    \/ DetailsGetGroupName
    \/ ValidateGroupAccess
    \/ JoinGroupAccess
    \/ ValidateGroupMembership
    \/ JoinGroupMembership
    \/ ReadExists
    \/ ReadIsHidden
    \/ ReadIsMember
    \/ ReadIsInvited
    \/ ReadGroupData
    \/ FetchGroupDetailsData
    \/ RenderGroupDetails
    \/ MembersStart
    \/ MembersGetGroupName
    \/ MembersReads
    \/ MembersJoin
    \/ MembersGetUsers
    \/ MembersRender
    \/ DeleteGroup
    \/ RequestEnds

Spec == Init /\ [][Next]_vars

(* ========================= groupsController.list ====================== *)

\* getGroups: resultsPerPage
ResultsPerPage(hasQuery) ==
    IF hasQuery THEN SearchResultsPerPage ELSE ListResultsPerPage

\* getGroups: start
GetGroupsStartNoClamp(page, resultsPerPage) == page * resultsPerPage
GetGroupsStart(page, resultsPerPage) == Max(0, page - 1) * resultsPerPage

\* getGroups: stop
GetGroupsStop(start, resultsPerPage) == start + resultsPerPage - 1

\* getGroups: `req.query.filterHidden === 'true' || !await user.isAdministrator(req.uid)`
FilterHiddenAsAsked(param, isAdministrator) == param = "true"
FilterHidden(param, isAdministrator) == param = "true" \/ ~isAdministrator

\* req.url.replace(/^\/api/, '')
StripApi(path) ==
    IF Len(path) > 0 /\ path[1] = "/api" THEN Tail(path) ELSE path

\* The handler's promise settles once: a later rejection changes nothing.
RejectOnce(r, at) == IF r.outcome = "pending" THEN PropagateFailure(r, at) ELSE r

\* list up to the call of getGroups; privileges.global.can is issued in the
\* same Promise.all.
ListStart ==
    /\ pc = "idle"
    /\ \E param \in PageParams, hasQuery \in BOOLEAN, isAPI \in BOOLEAN,
          filterHidden \in FilterHiddenParams, uid \in ListPrincipals :
        /\ req' = [NoReq EXCEPT
                !.endpoint = "list", !.page = param, !.query = hasQuery,
                !.filterHidden = filterHidden, !.uid = uid, !.isAPI = isAPI,
                !.url = [base |-> "",
                         path |-> (IF isAPI THEN <<"/api">> ELSE <<>>) \o <<"/groups">>,
                         search |-> [page |-> param, query |-> hasQuery,
                                     filterHidden |-> filterHidden]]]
        /\ loc' = [NoLoc EXCEPT !.page = PageOf(param)]
    /\ res' = NoRes
    /\ calls' = <<"privileges.global.can">>
    /\ pc' = "l_getGroups"
    /\ UNCHANGED store

\* privileges.global.can rejects: Promise.all, and with it the handler,
\* rejects at once, while getGroups runs on to its end.
GlobalCanRejects ==
    /\ pc \in {"l_getGroups", "l_search", "l_sorted", "l_sorted_join", "l_render"}
    /\ res.outcome = "pending"
    /\ res' = PropagateFailure(res, "privileges.global.can")
    /\ UNCHANGED <<store, pc, req, loc, calls>>

\* getGroups up to its first await.
GetGroupsPrepare ==
    /\ pc = "l_getGroups"
    /\ LET resultsPerPage == ResultsPerPage(req.query)
           start == GetGroupsStart(loc.page, resultsPerPage)
           stop == GetGroupsStop(start, resultsPerPage)
           l == [loc EXCEPT !.resultsPerPage = resultsPerPage,
                            !.start = start, !.stop = stop]
       IN  IF ~req.query
           THEN /\ loc' = l
                /\ calls' = calls
                /\ res' = res
                /\ pc' = "l_sorted"
           ELSE IF req.filterHidden = "true"
           THEN \* `||` short-circuits: user.isAdministrator is not asked
                /\ loc' = [l EXCEPT !.filterHidden = FilterHidden(req.filterHidden, FALSE)]
                /\ calls' = calls
                /\ res' = res
                /\ pc' = "l_search"
           ELSE /\ calls' = Append(calls, "user.isAdministrator")
                /\ \E failed \in BOOLEAN :
                    IF failed
                    THEN /\ res' = RejectOnce(res, "l_getGroups")
                         /\ pc' = "done"
                         /\ loc' = l
                    ELSE /\ loc' = [l EXCEPT !.filterHidden =
                                FilterHidden(req.filterHidden, req.uid.administrator)]
                         /\ res' = res
                         /\ pc' = "l_search"
    /\ UNCHANGED <<store, req>>

\* getGroups, search mode: groups.search, pageCount and the slice.
GetGroupsSearch ==
    /\ pc = "l_search"
    /\ calls' = Append(calls, "groups.search")
    /\ \E failed \in BOOLEAN, n \in 0..MaxMatched :
        IF failed
        THEN /\ res' = RejectOnce(res, "l_search")
             /\ pc' = "done"
             /\ loc' = loc
        ELSE LET groupData == AllGroups(n)
             IN  /\ loc' = [loc EXCEPT !.searched = TRUE, !.returned = TRUE,
                                !.total = Len(groupData),
                                !.count = Len(groupData),
                                !.pageCount = Ceil(Len(groupData), loc.resultsPerPage)]
                 /\ res' = [res EXCEPT !.items = Slice(groupData, loc.start, loc.stop + 1)]
                 /\ pc' = "l_render"
    /\ UNCHANGED <<store, req>>

\* getGroups, sorted listing: the range read and the count are issued in
\* one Promise.all.
GetGroupsSorted ==
    /\ pc = "l_sorted"
    /\ calls' = calls \o <<"groups.getGroupsBySort", "groups.getGroupCountBySort">>
    /\ loc' = [loc EXCEPT !.pending = {"groups.getGroupsBySort",
                                       "groups.getGroupCountBySort"}]
    /\ pc' = "l_sorted_join"
    /\ UNCHANGED <<store, req, res>>

\* groups.getGroupsBySort(sort, start, stop) settles, on a listing of n groups.
ReadGroupsBySort ==
    /\ "groups.getGroupsBySort" \in loc.pending
    /\ \E failed \in BOOLEAN, n \in 0..MaxGroups :
        IF failed
        THEN /\ res' = RejectOnce(res, pc)
             /\ pc' = "done"
             /\ loc' = [loc EXCEPT !.pending = {}]
        ELSE /\ loc' = [loc EXCEPT !.total = n,
                                   !.pending = @ \ {"groups.getGroupsBySort"}]
             /\ res' = [res EXCEPT !.items = GetGroupsBySort(n, loc.start, loc.stop)]
             /\ pc' = pc
    /\ UNCHANGED <<store, req, calls>>

\* groups.getGroupCountBySort(sort) settles, on a listing of n groups.
ReadGroupCountBySort ==
    /\ "groups.getGroupCountBySort" \in loc.pending
    /\ \E failed \in BOOLEAN, n \in 0..MaxGroups :
        IF failed
        THEN /\ res' = RejectOnce(res, pc)
             /\ pc' = "done"
             /\ loc' = [loc EXCEPT !.pending = {}]
        ELSE /\ loc' = [loc EXCEPT !.count = n,
                                   !.pending = @ \ {"groups.getGroupCountBySort"}]
             /\ res' = res
             /\ pc' = pc
    /\ UNCHANGED <<store, req, calls>>

\* getGroups, sorted listing, from the join on: pageCount and the return.
GetGroupsSortedJoin ==
    /\ pc = "l_sorted_join"
    /\ loc.pending = {}
    /\ loc' = [loc EXCEPT !.returned = TRUE,
                          !.pageCount = Ceil(loc.count, loc.resultsPerPage)]
    /\ pc' = "l_render"
    /\ UNCHANGED <<store, req, res, calls>>

\* list from the join of its Promise.all on: nothing more happens in a
\* handler that was rejected.
ListRender ==
    /\ pc = "l_render"
    /\ IF res.outcome # "pending"
       THEN UNCHANGED <<res, loc>>
       ELSE \E allowGroupCreation \in BOOLEAN :
            /\ loc' = [loc EXCEPT !.allowGroupCreation = allowGroupCreation]
            /\ res' = Render(PaginationCreate(
                                CanonicalLink(res, StripApi(req.url.path), req.url.search),
                                loc.page, loc.pageCount),
                             "groups/list")
    /\ pc' = "done"
    /\ UNCHANGED <<store, req, calls>>

NextList ==
    \/ ListStart
    \/ GlobalCanRejects
    \/ GetGroupsPrepare
    \/ GetGroupsSearch
    \/ GetGroupsSorted
    \/ ReadGroupsBySort
    \/ ReadGroupCountBySort
    \/ GetGroupsSortedJoin
    \/ ListRender
    \/ RequestEnds

SpecList == InitList /\ [][NextList]_vars

(* ============================== claims ================================ *)

InCalls(c) == \E i \in 1..Len(calls) : calls[i] = c
IsPrefix(s, t) == Len(s) <= Len(t) /\ SubSeq(t, 1, Len(s)) = s

\* The Visibility Evaluator's verdict on the group as the store holds it,
\* for the principal of the current request.
VisibleInStore ==
    \/ ~store.hidden
    \/ req.uid.adminGroups
    \/ req.uid.globalMod
    \/ store.member
    \/ store.invited

\* C1: once validateGroupAccess has returned for a group that exists, access
\* is granted iff the group is not hidden or the principal is admin, global
\* moderator, member or invited.  (The store only changes by deletion, so a
\* group that still exists is the group the lookups read.)
C1_AccessIffVisible ==
    (req.endpoint = "details" /\ loc.checked /\ store.exists)
        => (loc.hasAccess <=> VisibleInStore)

\* C1 witness: a hidden group opened to a principal who is only invited.
C1_Witness ==
    /\ req.endpoint = "details" /\ loc.checked /\ store.exists
    /\ store.hidden /\ store.invited /\ ~store.member
    /\ ~req.uid.adminGroups /\ ~req.uid.globalMod
    /\ loc.hasAccess

\* What the caller of details can observe of a settled request.
Observable(r) ==
    [outcome |-> r.outcome, location |-> r.location,
     template |-> r.template, renders |-> r.renders]
NotFoundObservable ==
    [outcome |-> "next", location |-> <<>>, template |-> "none", renders |-> 0]

\* C2: a details request whose slug resolved to no group, and one whose
\* group the access check refused, settle with one and the same observable
\* outcome: next() with no argument, nothing rendered, no redirect.
C2_NotFoundIndistinguishable ==
    (/\ req.endpoint = "details" /\ pc = "done" /\ res.failedAt = "none"
     /\ InCalls("groups.getGroupNameByGroupSlug")
     /\ (loc.groupName = NULL \/ (loc.checked /\ ~loc.hasAccess)))
        => Observable(res) = NotFoundObservable

\* C2 witness: a hidden group refused to an unauthorized principal.
C2_Witness ==
    /\ req.endpoint = "details" /\ pc = "done" /\ res.failedAt = "none"
    /\ loc.checked /\ loc.exists /\ loc.isHidden /\ ~loc.hasAccess
    /\ store.exists /\ ~VisibleInStore
    /\ Observable(res) = NotFoundObservable

\* The members endpoint went on to fetch a page of members.
MembersServed ==
    loc.readsDone /\ (pc \in {"m_users", "m_render"} \/ InCalls("user.getUsersFromSet"))

\* C3 as stated: for an existing group the members endpoint serves the page
\* exactly when the Visibility Evaluator's verdict is visible.
C3_ServedIffVisible ==
    (req.endpoint = "members" /\ loc.readsDone /\ store.exists)
        => (MembersServed <=> VisibleInStore)

\* C3 amended: for an existing group the members endpoint serves the page
\* exactly when the group is not hidden or the principal is a member, an
\* administrator or a global moderator; otherwise it answers not-found and
\* user.getUsersFromSet is never called; and it renders only after that call.
C3_ServedIffMemberOrStaff ==
    /\ (req.endpoint = "members" /\ loc.readsDone /\ store.exists)
        => /\ MembersServed <=>
                (~store.hidden \/ store.member \/ req.uid.administrator
                    \/ req.uid.globalMod)
           /\ ~MembersServed =>
                (pc = "done" /\ res.outcome = "next" /\ res.renders = 0)
    /\ (req.endpoint = "members" /\ res.renders > 0)
        => InCalls("user.getUsersFromSet")

\* C3 witness: the members of a hidden group rendered to a plain member.
C3_Witness ==
    /\ req.endpoint = "members" /\ store.exists /\ store.hidden /\ store.member
    /\ ~req.uid.administrator /\ ~req.uid.globalMod
    /\ res.template = "groups/members" /\ res.renders = 1

\* C4: details redirects iff the raw slug differs from its lower-cased form
\* and the request is not an API request, to the location built from the
\* lower-cased slug; otherwise it goes on with the lower-cased slug (the raw
\* slug itself when that was lower-case already) and never redirects.
C4_Canonicalization ==
    (req.endpoint = "details" /\ pc # "d_validate")
        => LET lower == ToLowerCase(req.rawSlug)
               redirected == res.location # <<>>
           IN  /\ redirected <=> (req.rawSlug # lower /\ ~req.isAPI)
               /\ redirected =>
                    /\ res.outcome = "redirect"
                    /\ res.location = <<"relative_path", "/groups/">> \o lower
                    /\ pc = "done"
               /\ ~redirected =>
                    /\ res.outcome # "redirect"
                    /\ req.slug = lower
                    /\ (pc = "d_resolve" \/ InCalls("groups.getGroupNameByGroupSlug"))
               /\ (req.rawSlug = lower) => req.slug = req.rawSlug

\* C4 witness: an API request with an upper-case slug went on with the
\* lower-cased slug.
C4_Witness ==
    /\ req.endpoint = "details" /\ req.isAPI /\ req.rawSlug = <<"G", "x">>
    /\ req.slug = <<"g", "x">> /\ loc.groupName = GroupName

DetailsCallOrder(withMembership) ==
    <<"groups.getGroupNameByGroupSlug", "groups.exists", "groups.isHidden",
      "privileges.admin.can", "user.isGlobalModerator">>
    \o (IF withMembership THEN <<"groups.isMember", "groups.isInvited">> ELSE <<>>)
    \o <<"groups.get", "groups.getLatestMemberPosts">>

\* C5: details runs in a fixed order and every step short-circuits: after a
\* redirect no lookup is made and nothing is rendered; the slug is resolved
\* before the access check; the record and the posts are fetched only after
\* access was granted; render happens at most once, after all of these.
C5_FixedOrder ==
    req.endpoint = "details" =>
        /\ \E m \in BOOLEAN : IsPrefix(calls, DetailsCallOrder(m))
        /\ res.location # <<>> => (calls = <<>> /\ res.renders = 0)
        /\ InCalls("groups.exists") => loc.groupName # NULL
        /\ InCalls("groups.get") => (loc.checked /\ loc.hasAccess)
        /\ res.renders <= 1
        /\ res.renders = 1 =>
            /\ loc.groupName # NULL /\ loc.hasAccess
            /\ loc.fetched /\ loc.groupData.found
            /\ res.location = <<>> /\ res.failedAt = "none"

\* C5 witness: a details page rendered after every lookup, membership
\* included.
C5_Witness ==
    /\ req.endpoint = "details" /\ res.renders = 1
    /\ calls = DetailsCallOrder(TRUE)

\* C6: in search mode filterHidden is true whenever the principal is not an
\* administrator, whatever the filterHidden parameter says.
C6_FilterHiddenForced ==
    (req.endpoint = "list" /\ req.query /\ (pc = "l_search" \/ loc.searched))
        => (~req.uid.administrator => loc.filterHidden)

\* C6 witness: a non-administrator asked for filterHidden=false and the
\* search ran with filterHidden = true.
C6_Witness ==
    /\ req.endpoint = "list" /\ loc.searched
    /\ ~req.uid.administrator /\ req.filterHidden = "false"
    /\ loc.filterHidden

\* The page getGroups returns for page number p of n results.
PageItems(hasQuery, p, n) ==
    LET rpp == ResultsPerPage(hasQuery)
        start == GetGroupsStart(p, rpp)
    IN  Slice(AllGroups(n), start, GetGroupsStop(start, rpp) + 1)

RECURSIVE ConcatPages(_, _, _)
ConcatPages(hasQuery, k, n) ==
    IF k = 0 THEN <<>>
    ELSE ConcatPages(hasQuery, k - 1, n) \o PageItems(hasQuery, k, n)

\* C7 as stated: with R = 15 (sorted listing) or 100 (search), page p >= 1 of
\* n results is exactly the elements at indices [(p-1)R, min(pR, n)),
\* pageCount is ceil(n / R), a page beyond pageCount is empty, and the pages
\* 1..pageCount together are the whole sequence.
C7_PaginationAsStated ==
    (req.endpoint = "list" /\ loc.returned /\ loc.page >= 1)
        => LET R == IF req.query THEN 100 ELSE 15
               n == loc.total
               lo == (loc.page - 1) * R
               hi == IF loc.page * R <= n THEN loc.page * R ELSE n
           IN  /\ Len(res.items) = (IF hi > lo THEN hi - lo ELSE 0)
               /\ \A i \in 1..Len(res.items) : res.items[i] = lo + i
               /\ loc.pageCount * R >= n
               /\ (loc.pageCount - 1) * R < n
               /\ loc.page > loc.pageCount => res.items = <<>>
               /\ ConcatPages(req.query, loc.pageCount, n) = AllGroups(n)

\* C7 amended: the items of page p >= 1 are exactly the elements at indices
\* [(p-1)R, min(pR, n)) of the sequence of n groups the range read or the
\* search returned, and pageCount is ceil(c / R) for the count c read; in
\* search mode c = n always, and whenever c = n a page beyond pageCount is
\* empty and the pages 1..pageCount together are the whole sequence.
C7_Pagination ==
    (req.endpoint = "list" /\ loc.returned /\ loc.page >= 1)
        => LET R == IF req.query THEN 100 ELSE 15
               n == loc.total
               c == loc.count
               lo == (loc.page - 1) * R
               hi == IF loc.page * R <= n THEN loc.page * R ELSE n
           IN  /\ Len(res.items) = (IF hi > lo THEN hi - lo ELSE 0)
               /\ \A i \in 1..Len(res.items) : res.items[i] = lo + i
               /\ loc.pageCount * R >= c
               /\ (loc.pageCount - 1) * R < c
               /\ req.query => c = n
               /\ c = n =>
                    /\ loc.page > loc.pageCount => res.items = <<>>
                    /\ ConcatPages(req.query, loc.pageCount, n) = AllGroups(n)

\* C7 witness: 32 groups, sorted listing, page 3 holds 2 items of 3 pages.
C7_Witness ==
    /\ req.endpoint = "list" /\ ~req.query /\ pc = "done"
    /\ loc.total = 32 /\ loc.count = 32 /\ loc.page = 3 /\ loc.pageCount = 3
    /\ res.items = <<31, 32>> /\ res.outcome = "render"

\* C8: for every value of the page parameter, the page number handed to
\* pagination.create is >= 1 and the start offset is >= 0.
C8_PagerPagePositive ==
    res.pagerCalled => (res.pagerPage >= 1 /\ loc.start >= 0)

\* C9: a failed lookup of the access check ends validateGroupAccess in a
\* propagated failure: no verdict, nothing rendered, no not-found.
C9_FailurePropagates ==
    (req.endpoint = "details" /\ res.failedAt \in
        {"d_access", "d_access_join", "d_access2_join"})
        => /\ ~loc.checked
           /\ res.outcome = "failure"
           /\ res.renders = 0 /\ res.template = "none"
           /\ ~InCalls("groups.get")
           /\ pc = "done"

\* C9 witness: the membership lookups of a hidden group failed.
C9_Witness ==
    /\ req.endpoint = "details" /\ res.failedAt = "d_access2_join"
    /\ loc.exists /\ loc.isHidden /\ res.outcome = "failure"

\* A store read made after the slug was resolved reported the group absent.
LateAbsence ==
    /\ loc.groupName # NULL
    /\ \/ /\ req.endpoint = "details"
          /\ (loc.checked /\ ~loc.exists) \/ (loc.fetched /\ ~loc.groupData.found)
       \/ /\ req.endpoint = "members"
          /\ loc.readsDone /\ ~loc.groupData.found

\* C10: a request whose later store read finds the group gone settles with
\* the not-found outcome, in details and in members.
C10_LateAbsenceIsNotFound ==
    (pc = "done" /\ res.failedAt = "none" /\ LateAbsence) => res.outcome = "next"

====
